---- MODULE Spec2Model ----
(***************************************************************************)
(* Model of the YouTube pause-timer content script (src/unnamed/part_000). *)
(*                                                                         *)
(* Times (video.currentTime, video.duration, targetTime) are fixed-point   *)
(* numbers counted in tenths of a second, so that 59.6 s is 596.           *)
(* Texts (input values) are sequences of one-character strings.            *)
(* The page holds one <video> element object; it can be attached to or     *)
(* detached from the document, and a timer callback keeps its reference.   *)
(* The toolbar popup (src/popup.js) is a second script with its own state. *)
(***************************************************************************)
EXTENDS Integers, Sequences, FiniteSets, TLC

VARIABLES
    pauseIntervalId,   \* the task slot: Null or the id setInterval returned
    intervals,         \* the page's live intervals: id -> targetTime of its callback
    nextIntervalId,    \* the id the next setInterval call returns
    videoInDom,        \* document.querySelector('video') finds the element
    currentTime,       \* video.currentTime, tenths of a second
    duration,          \* video.duration, tenths of a second
    paused,            \* video.paused
    pauseCalls,        \* per interval id: video.pause() calls its callback made
    panelPresent,      \* document.getElementById(panelId) finds the panel
    panelCount,        \* elements with id panelId in document.body
    timestampInput,    \* #timestampInput.value
    scaleSlider,       \* #scaleSlider.value
    scaleValue,        \* #scaleValue.value
    isPanelVisible,    \* chrome.storage.local: "undefined", "true" or "false"
    startupGet,        \* the startup storage read: the result.isPanelVisible
                       \* it is about to deliver, or "delivered"
    console,           \* the last message the script logged
    popup              \* the toolbar popup: its handler's position, the active
                       \* tab, the messages it sent and what its call returned

vars == <<pauseIntervalId, intervals, nextIntervalId, videoInDom, currentTime,
          duration, paused, pauseCalls, panelPresent, timestampInput,
          scaleSlider, scaleValue, isPanelVisible, startupGet, console,
          panelCount, popup>>

schedVars == <<pauseIntervalId, intervals, nextIntervalId>>
videoVars == <<videoInDom, currentTime, duration, paused>>
panelVars == <<panelPresent, panelCount, timestampInput, scaleSlider, scaleValue>>
storeVars == <<isPanelVisible, startupGet>>

\* ------------------------------------------------------------------ bounds

\* setInterval calls made in one page life
MaxIntervals == 2
\* pause() calls counted per interval (the counter saturates here)
MaxPauseCalls == 2

\* ------------------------------------------------------------- constants

Null == 0

\* ------------------------------------------------------------------ texts

Digits == <<"0", "1", "2", "3", "4", "5", "6", "7", "8", "9">>

IsDigit(c) == \E i \in 1..10 : Digits[i] = c

DigitValue(c) == (CHOOSE i \in 1..10 : Digits[i] = c) - 1

AllDigits(s) == \A i \in 1..Len(s) : IsDigit(s[i])

\* String.prototype.split(":")
RECURSIVE Split(_)
Split(s) ==
    IF \E i \in 1..Len(s) : s[i] = ":"
    THEN LET k == CHOOSE i \in 1..Len(s) :
                      s[i] = ":" /\ \A j \in 1..(i - 1) : s[j] # ":"
         IN  <<SubSeq(s, 1, k - 1)>> \o Split(SubSeq(s, k + 1, Len(s)))
    ELSE <<s>>

\* Number(s) for a string of decimal digits
RECURSIVE Number(_)
Number(s) ==
    IF s = <<>> THEN 0
    ELSE Number(SubSeq(s, 1, Len(s) - 1)) * 10 + DigitValue(s[Len(s)])

\* String(n) for a non-negative integer
RECURSIVE String(_)
String(n) ==
    IF n < 10 THEN <<Digits[n + 1]>>
    ELSE String(n \div 10) \o <<Digits[(n % 10) + 1]>>

\* s.padStart(2, '0')
PadStart2(s) == IF Len(s) < 2 THEN <<"0">> \o s ELSE s

\* a looser pattern, /^(\d+:\d{1,2}:\d{1,2}|\d{1,2}:\d{1,2})$/
isValidHMSFormatLoose(input) ==
    LET parts == Split(input)
    IN  /\ \A i \in 1..Len(parts) : AllDigits(parts[i])
        /\ \/ /\ Len(parts) = 3
              /\ Len(parts[1]) >= 1
              /\ Len(parts[2]) \in 1..2
              /\ Len(parts[3]) \in 1..2
           \/ /\ Len(parts) = 2
              /\ Len(parts[1]) \in 1..2
              /\ Len(parts[2]) \in 1..2

\* /^(\d+:\d{2}:\d{2}|\d{1,2}:\d{2})$/.test(input)
isValidHMSFormat(input) ==
    LET parts == Split(input)
    IN  /\ \A i \in 1..Len(parts) : AllDigits(parts[i])
        /\ \/ /\ Len(parts) = 3
              /\ Len(parts[1]) >= 1
              /\ Len(parts[2]) = 2
              /\ Len(parts[3]) = 2
           \/ /\ Len(parts) = 2
              /\ Len(parts[1]) \in 1..2
              /\ Len(parts[2]) = 2

\* timestampToArray that appends the missing zeros (push for unshift)
timestampToArrayAppends(timestamp) ==
    LET split == Split(timestamp)
        parts == [i \in 1..Len(split) |-> Number(split[i])]
    IN  IF Len(parts) = 1 THEN parts \o <<0, 0>>
        ELSE IF Len(parts) = 2 THEN parts \o <<0>>
        ELSE parts

\* [hours, minutes, seconds] of a validated timestamp
timestampToArray(timestamp) ==
    LET split == Split(timestamp)
        parts == [i \in 1..Len(split) |-> Number(split[i])]
    IN  IF Len(parts) = 1 THEN <<0, 0>> \o parts
        ELSE IF Len(parts) = 2 THEN <<0>> \o parts
        ELSE parts

\* arrayToTimestamp that pads the minutes of the two-part form as well
arrayToTimestampPadsMinutes(timeArray) ==
    LET hours == timeArray[1]
        minutes == timeArray[2]
        seconds == timeArray[3]
    IN  IF hours > 0
        THEN String(hours) \o <<":">> \o PadStart2(String(minutes))
                 \o <<":">> \o PadStart2(String(seconds))
        ELSE PadStart2(String(minutes)) \o <<":">> \o PadStart2(String(seconds))

\* arrayToTimestamp that leaves the fields unpadded
arrayToTimestampNoPadding(timeArray) ==
    LET hours == timeArray[1]
        minutes == timeArray[2]
        seconds == timeArray[3]
    IN  IF hours > 0
        THEN String(hours) \o <<":">> \o String(minutes) \o <<":">> \o String(seconds)
        ELSE String(minutes) \o <<":">> \o String(seconds)

arrayToTimestamp(timeArray) ==
    LET hours == timeArray[1]
        minutes == timeArray[2]
        seconds == timeArray[3]
    IN  IF hours > 0
        THEN String(hours) \o <<":">> \o PadStart2(String(minutes))
                 \o <<":">> \o PadStart2(String(seconds))
        ELSE String(minutes) \o <<":">> \o PadStart2(String(seconds))

\* the text attachPanelListeners writes into #timestampInput for a video
\* of totalSeconds (in tenths): floor, floor and Math.round of the fields
DefaultTimestamp(totalSeconds) ==
    LET hours == totalSeconds \div 36000
        minutes == (totalSeconds % 36000) \div 600
        seconds == ((totalSeconds % 600) + 5) \div 10
    IN  arrayToTimestamp(<<hours, minutes, seconds>>)

\* percentageOfTimestamp(totalSeconds, n), totalSeconds in tenths: the
\* product is cut to whole tenths, which changes neither floor nor round
percentageOfTimestamp(totalSeconds, n) ==
    IF n < 0 \/ n > 100 THEN <<"number not valid">>
    ELSE LET dividedSeconds == (totalSeconds * n) \div 100
             newHours == dividedSeconds \div 36000
             remainderAfterHours == dividedSeconds % 36000
             newMinutes == remainderAfterHours \div 600
             newSeconds == ((remainderAfterHours % 600) + 5) \div 10
         IN  arrayToTimestamp(<<newHours, newMinutes, newSeconds>>)

\* a JavaScript number read from a text: NaN, or an integer
NaN == [nan |-> TRUE, n |-> 0]

Num(k) == [nan |-> FALSE, n |-> k]

\* parseFloat(s) of an optionally signed decimal integer text; NaN otherwise
parseFloat(s) ==
    IF s # <<>> /\ AllDigits(s) THEN Num(Number(s))
    ELSE IF Len(s) >= 2 /\ s[1] = "-" /\ AllDigits(Tail(s))
         THEN Num(0 - Number(Tail(s)))
    ELSE NaN

isNaN(x) == x.nan

\* the value an <input type="range" min="0" max="100"> keeps when set to s
RangeValue(s) ==
    LET x == parseFloat(s)
    IN  IF isNaN(x) THEN <<"5", "0">>
        ELSE IF x.n < 0 THEN <<"0">>
        ELSE IF x.n > 100 THEN <<"1", "0", "0">>
        ELSE String(x.n)

\* ------------------------------------------------------- inputs and page

\* texts the user types into #timestampInput
TimestampTexts == { <<"0", ":", "3", "0">>, <<"1", ":", "2">> }

\* texts the user types into #scaleValue
ScaleTexts == { <<>>, <<"-", "1">>, <<"1", "0", "1">> }

\* positions the user drags #scaleSlider to
SliderTexts == { <<"5", "0">> }

\* video.duration of the page's video: 59.6 s or 60 s
Durations == {596, 600}

\* playback positions sampled: the start, 30 s and the end of the video
Positions(d) == {0, 300, d}

\* ------------------------------------------------------------ scheduler

sched == [pauseIntervalId |-> pauseIntervalId,
          intervals |-> intervals,
          nextIntervalId |-> nextIntervalId,
          console |-> console]

\* clearInterval(id)
clearInterval(table, id) == [i \in (DOMAIN table) \ {id} |-> table[i]]

\* stopPauseTimer that forgets the clearInterval call
stopPauseTimerKeepsInterval(s) ==
    IF s.pauseIntervalId # Null
    THEN [s EXCEPT !.pauseIntervalId = Null,
                   !.console = "Existing pause timer stopped."]
    ELSE s

\* stopPauseTimer that clears the interval but keeps its id in pauseIntervalId
stopPauseTimerKeepsId(s) ==
    IF s.pauseIntervalId # Null
    THEN [s EXCEPT !.intervals = clearInterval(s.intervals, s.pauseIntervalId),
                   !.console = "Existing pause timer stopped."]
    ELSE s

stopPauseTimer(s) ==
    IF s.pauseIntervalId # Null
    THEN [s EXCEPT !.intervals = clearInterval(s.intervals, s.pauseIntervalId),
                   !.pauseIntervalId = Null,
                   !.console = "Existing pause timer stopped."]
    ELSE s

\* findVideo() !== null
findVideo == videoInDom

\* startPauseTimer that does not stop the previous timer
startPauseTimerNoStop(s, targetTime) ==
    IF ~findVideo
    THEN [s EXCEPT !.console = "No video element found to set a timer."]
    ELSE [pauseIntervalId |-> s.nextIntervalId,
          intervals |-> [i \in (DOMAIN s.intervals) \cup {s.nextIntervalId} |->
                            IF i = s.nextIntervalId THEN targetTime
                            ELSE s.intervals[i]],
          nextIntervalId |-> s.nextIntervalId + 1,
          console |-> "Setting timer to pause."]

\* startPauseTimer that looks for the video before it stops the previous timer
startPauseTimerVideoFirst(s, targetTime) ==
    IF ~findVideo
    THEN [s EXCEPT !.console = "No video element found to set a timer."]
    ELSE [pauseIntervalId |-> s.nextIntervalId,
          intervals |-> [i \in {s.nextIntervalId} |-> targetTime],
          nextIntervalId |-> s.nextIntervalId + 1,
          console |-> "Setting timer to pause."]

startPauseTimer(s, targetTime) ==
    LET t == stopPauseTimer(s)
    IN  IF ~findVideo
        THEN [t EXCEPT !.console = "No video element found to set a timer."]
        ELSE [pauseIntervalId |-> t.nextIntervalId,
              intervals |-> [i \in (DOMAIN t.intervals) \cup {t.nextIntervalId} |->
                                IF i = t.nextIntervalId THEN targetTime
                                ELSE t.intervals[i]],
              nextIntervalId |-> t.nextIntervalId + 1,
              console |-> "Setting timer to pause."]

SetSched(s) ==
    /\ pauseIntervalId' = s.pauseIntervalId
    /\ intervals' = s.intervals
    /\ nextIntervalId' = s.nextIntervalId
    /\ console' = s.console

\* the comparison turned round: targetTime >= video.currentTime
TickReachedInverted(id) == intervals[id] >= currentTime

\* the comparison made strict: video.currentTime > targetTime
TickReachedStrict(id) == currentTime > intervals[id]

\* the comparison of the callback of interval id: video.currentTime >= targetTime
TickReached(id) == currentTime >= intervals[id]

\* the callback without its stopPauseTimer() call
TickNoStop(id) ==
    /\ id \in DOMAIN intervals
    /\ IF currentTime >= intervals[id]
       THEN /\ paused' = TRUE
            /\ pauseCalls' = [pauseCalls EXCEPT
                   ![id] = IF @ < MaxPauseCalls THEN @ + 1 ELSE @]
            /\ console' = "Video paused."
            /\ UNCHANGED schedVars
       ELSE UNCHANGED <<schedVars, console, pauseCalls, paused>>
    /\ UNCHANGED <<videoInDom, currentTime, duration, panelVars, storeVars, popup>>

\* one firing of the setInterval callback of interval id
Tick(id) ==
    /\ id \in DOMAIN intervals
    /\ IF TickReached(id)
       THEN /\ paused' = TRUE
            /\ pauseCalls' = [pauseCalls EXCEPT
                   ![id] = IF @ < MaxPauseCalls THEN @ + 1 ELSE @]
            /\ SetSched([stopPauseTimer(sched) EXCEPT !.console = "Video paused."])
       ELSE UNCHANGED <<schedVars, console, pauseCalls, paused>>
    /\ UNCHANGED <<videoInDom, currentTime, duration, panelVars, storeVars, popup>>

Ticks == \E id \in 1..MaxIntervals : Tick(id)

\* ----------------------------------------------------------------- panel

panel == [panelPresent |-> panelPresent,
          panelCount |-> panelCount,
          timestampInput |-> timestampInput,
          scaleSlider |-> scaleSlider,
          scaleValue |-> scaleValue]

\* injectPanel() without the check for a panel that is already there
injectPanelNoGuard(p) ==
    [panelPresent |-> TRUE,
     panelCount |-> p.panelCount + 1,
     timestampInput |-> IF findVideo THEN DefaultTimestamp(duration) ELSE <<>>,
     scaleSlider |-> <<"1", "0", "0">>,
     scaleValue |-> <<"1", "0", "0">>]

\* injectPanel(), with the attachPanelListeners() call that ends it
injectPanel(p) ==
    IF p.panelPresent THEN p
    ELSE [panelPresent |-> TRUE,
          panelCount |-> p.panelCount + 1,
          timestampInput |-> IF findVideo THEN DefaultTimestamp(duration) ELSE <<>>,
          scaleSlider |-> <<"1", "0", "0">>,
          scaleValue |-> <<"1", "0", "0">>]

\* panel.remove(): the panel and its inputs leave the page
removePanel == [panelPresent |-> panelCount > 1,
                panelCount |-> IF panelCount > 0 THEN panelCount - 1 ELSE 0,
                timestampInput |-> <<>>,
                scaleSlider |-> <<>>,
                scaleValue |-> <<>>]

SetPanel(p) ==
    /\ panelPresent' = p.panelPresent
    /\ panelCount' = p.panelCount
    /\ timestampInput' = p.timestampInput
    /\ scaleSlider' = p.scaleSlider
    /\ scaleValue' = p.scaleValue

\* the callback of chrome.storage.local.get(["isPanelVisible"], ...)
StartupRead ==
    /\ startupGet # "delivered"
    /\ startupGet' = "delivered"
    /\ IF startupGet = "true"
       THEN /\ SetPanel(injectPanel(panel))
            /\ console' = IF panelPresent
                          THEN "Panel already exists, not injecting again."
                          ELSE console
       ELSE UNCHANGED <<panelVars, console>>
    /\ UNCHANGED <<schedVars, videoVars, pauseCalls, isPanelVisible, popup>>

\* the body of the onMessage listener for request.action === "togglePanel"
onMessageTogglePanel ==
    /\ IF panelPresent
       THEN /\ SetPanel(removePanel)
            /\ isPanelVisible' = "false"
       ELSE /\ SetPanel(injectPanel(panel))
            /\ isPanelVisible' = "true"
    /\ UNCHANGED <<schedVars, console, videoVars, pauseCalls, startupGet>>

\* the onMessage listener receives {action: "togglePanel"}
TogglePanel ==
    /\ onMessageTogglePanel
    /\ UNCHANGED popup

\* a close handler that also stops the pause timer
ClosePanelStopsTimer ==
    /\ panelPresent
    /\ SetPanel(removePanel)
    /\ isPanelVisible' = "false"
    /\ SetSched(stopPauseTimer(sched))
    /\ UNCHANGED <<videoVars, pauseCalls, startupGet, popup>>

\* click on #closePanel
ClosePanel ==
    /\ panelPresent
    /\ SetPanel(removePanel)
    /\ isPanelVisible' = "false"
    /\ UNCHANGED <<schedVars, console, videoVars, pauseCalls, startupGet, popup>>

\* input event on #scaleSlider
SliderInput(text) ==
    /\ panelPresent
    /\ scaleSlider' = text
    /\ scaleValue' = text
    /\ UNCHANGED <<schedVars, console, videoVars, pauseCalls, storeVars, popup,
                   panelPresent, panelCount, timestampInput>>

\* input event on #scaleValue
ScaleValueInput(text) ==
    /\ panelPresent
    /\ scaleValue' = text
    /\ scaleSlider' = RangeValue(text)
    /\ UNCHANGED <<schedVars, console, videoVars, pauseCalls, storeVars, popup,
                   panelPresent, panelCount, timestampInput>>

\* the user edits #timestampInput (no listener of the script runs)
TimestampInput(text) ==
    /\ panelPresent
    /\ timestampInput' = text
    /\ UNCHANGED <<schedVars, console, videoVars, pauseCalls, storeVars, popup,
                   panelPresent, panelCount, scaleSlider, scaleValue>>

\* the timestamp listener without its format check
timestampClickUnchecked(s, timestamp) ==
    LET parts == timestampToArray(timestamp)
        totalSeconds == (parts[1] * 3600 + parts[2] * 60 + parts[3]) * 10
    IN  startPauseTimer(s, totalSeconds)

\* the click listener of #chosenTimestamp, on the text of #timestampInput
timestampClick(s, timestamp) ==
    IF ~isValidHMSFormat(timestamp)
    THEN [s EXCEPT !.console = "Invalid timestamp format."]
    ELSE LET parts == timestampToArray(timestamp)
             totalSeconds == (parts[1] * 3600 + parts[2] * 60 + parts[3]) * 10
         IN  startPauseTimer(s, totalSeconds)

\* percentage < 0 || percentage > 100, after the isNaN test
\* a range check that also rejects both ends
OutOfRangeExclusive(percentage) == percentage.n <= 0 \/ percentage.n >= 100

\* percentage < 0 || percentage > 100
OutOfRange(percentage) == percentage.n < 0 \/ percentage.n > 100

\* video.duration * (percentage / 100), exact for the values modelled
SeekTime(percentage) == (duration * percentage.n) \div 100

\* the click listener of #partitionOfVideoLength, on the text of #scaleValue
percentageClick(s, text) ==
    LET percentage == parseFloat(text)
    IN  IF isNaN(percentage) \/ OutOfRange(percentage)
        THEN [s EXCEPT !.console = "Invalid percentage value."]
        ELSE IF findVideo THEN startPauseTimer(s, SeekTime(percentage))
        ELSE s

\* click on #chosenTimestamp
ClickTimestamp ==
    /\ panelPresent
    /\ nextIntervalId <= MaxIntervals
    /\ SetSched(timestampClick(sched, timestampInput))
    /\ UNCHANGED <<videoVars, pauseCalls, panelVars, storeVars, popup>>

\* click on #partitionOfVideoLength
ClickPercentage ==
    /\ panelPresent
    /\ nextIntervalId <= MaxIntervals
    /\ SetSched(percentageClick(sched, scaleValue))
    /\ UNCHANGED <<videoVars, pauseCalls, panelVars, storeVars, popup>>

\* ------------------------------------------------------------ the video

\* playback moves on to the next sampled position
Advance ==
    /\ ~paused
    /\ \E p \in Positions(duration) :
          /\ p > currentTime
          /\ \A q \in Positions(duration) : q > currentTime => p <= q
          /\ currentTime' = p
    /\ UNCHANGED <<schedVars, console, pauseCalls, panelVars, storeVars, popup,
                   videoInDom, duration, paused>>

\* the user seeks
Seek(p) ==
    /\ p # currentTime
    /\ currentTime' = p
    /\ UNCHANGED <<schedVars, console, pauseCalls, panelVars, storeVars, popup,
                   videoInDom, duration, paused>>

\* the user resumes playback
Play ==
    /\ paused
    /\ paused' = FALSE
    /\ UNCHANGED <<schedVars, console, pauseCalls, panelVars, storeVars, popup,
                   videoInDom, duration, currentTime>>

\* the page attaches the video element to the document or detaches it
VideoAttach ==
    /\ ~videoInDom
    /\ videoInDom' = TRUE
    /\ UNCHANGED <<schedVars, console, pauseCalls, panelVars, storeVars, popup,
                   currentTime, duration, paused>>

VideoDetach ==
    /\ videoInDom
    /\ videoInDom' = FALSE
    /\ UNCHANGED <<schedVars, console, pauseCalls, panelVars, storeVars, popup,
                   currentTime, duration, paused>>

\* ------------------------------------------------------------ the popup

\* popup openings followed
MaxOpens == 2

\* URLs are sequences of their parts
YouTubePrefix == <<"https://", "www.youtube.com", "/">>

\* url.startsWith(prefix)
startsWith(url, prefix) ==
    /\ Len(url) >= Len(prefix)
    /\ SubSeq(url, 1, Len(prefix)) = prefix

\* the active tab chrome.tabs.query finds: none, or a tab with its URL and
\* whether this content script listens in it
Tabs ==
    { [exists |-> FALSE, url |-> <<>>, listening |-> FALSE],
      [exists |-> TRUE, url |-> <<"https://", "www.youtube.com", "/", "watch">>,
       listening |-> TRUE],
      [exists |-> TRUE, url |-> <<"https://", "www.youtube.com", "/", "watch">>,
       listening |-> FALSE],
      [exists |-> TRUE, url |-> <<"https://", "www.youtube.com.example.org", "/">>,
       listening |-> FALSE],
      [exists |-> TRUE, url |-> <<"http://", "www.youtube.com", "/">>,
       listening |-> FALSE] }

PopupClosed ==
    [pc |-> "closed",
     tab |-> [exists |-> FALSE, url |-> <<>>, listening |-> FALSE],
     sent |-> 0, status |-> "none", opens |-> 0]

pageVars == <<schedVars, console, videoVars, pauseCalls, panelVars, storeVars>>

\* the user opens the popup on the active tab: DOMContentLoaded fires
PopupOpen(tab) ==
    /\ popup.pc = "closed"
    /\ popup.opens < MaxOpens
    /\ popup' = [pc |-> "loaded", tab |-> tab, sent |-> 0, status |-> "none",
                 opens |-> popup.opens + 1]
    /\ UNCHANGED pageVars

\* sendMessageToContentScript up to its return or its sendMessage call
sendMessageToContentScript(q) ==
    IF q.tab.exists /\ startsWith(q.tab.url, YouTubePrefix)
    THEN [q EXCEPT !.sent = @ + 1, !.pc = "awaiting"]
    ELSE [q EXCEPT !.status = "error", !.pc = "returned"]

\* chrome.tabs.query resolves and sendMessageToContentScript goes on
PopupQuery ==
    /\ popup.pc = "loaded"
    /\ popup' = sendMessageToContentScript(popup)
    /\ UNCHANGED pageVars

\* the content script of the tab receives the message; sendMessage resolves
MessageDelivered ==
    /\ popup.pc = "awaiting"
    /\ popup.tab.listening
    /\ onMessageTogglePanel
    /\ popup' = [popup EXCEPT !.pc = "resolved"]

\* no listener in the tab: the sendMessage promise rejects, the await throws
\* and the handler ends before window.close()
SendRejected ==
    /\ popup.pc = "awaiting"
    /\ ~popup.tab.listening
    /\ popup' = [popup EXCEPT !.pc = "threw"]
    /\ UNCHANGED pageVars

\* window.close() after the await
PopupClose ==
    /\ popup.pc \in {"resolved", "returned"}
    /\ popup' = [popup EXCEPT !.pc = "closed"]
    /\ UNCHANGED pageVars

\* the user dismisses a popup its handler left open
PopupDismiss ==
    /\ popup.pc = "threw"
    /\ popup' = [popup EXCEPT !.pc = "closed"]
    /\ UNCHANGED pageVars

\* ----------------------------------------------------------- page reload

\* the page is loaded again: a new document, and the content script runs
\* from its first line; chrome.storage.local keeps its value
Reload ==
    /\ pauseIntervalId' = Null
    /\ intervals' = [i \in {} |-> 0]
    /\ nextIntervalId' = 1
    /\ pauseCalls' = [i \in 1..MaxIntervals |-> 0]
    /\ videoInDom' \in BOOLEAN
    /\ currentTime' = 0
    /\ paused' = FALSE
    /\ SetPanel([panelPresent |-> FALSE, panelCount |-> 0, timestampInput |-> <<>>,
                 scaleSlider |-> <<>>, scaleValue |-> <<>>])
    /\ startupGet' = isPanelVisible
    /\ console' = ""
    /\ UNCHANGED <<duration, isPanelVisible, popup>>

\* ------------------------------------------------------- specification

\* the content script has run: the slot is empty, the startup read is
\* issued and its result fixed, the message listener is registered
Init ==
    /\ pauseIntervalId = Null
    /\ intervals = [i \in {} |-> 0]
    /\ nextIntervalId = 1
    /\ videoInDom \in BOOLEAN
    /\ currentTime = 0
    /\ duration \in Durations
    /\ paused = FALSE
    /\ pauseCalls = [i \in 1..MaxIntervals |-> 0]
    /\ panelPresent = FALSE
    /\ panelCount = 0
    /\ timestampInput = <<>>
    /\ scaleSlider = <<>>
    /\ scaleValue = <<>>
    /\ isPanelVisible \in {"undefined", "true", "false"}
    /\ startupGet = isPanelVisible
    /\ console = ""
    /\ popup = PopupClosed

Next ==
    \/ StartupRead
    \/ TogglePanel
    \/ ClosePanel
    \/ \E text \in SliderTexts : SliderInput(text)
    \/ \E text \in ScaleTexts : ScaleValueInput(text)
    \/ \E text \in TimestampTexts : TimestampInput(text)
    \/ ClickTimestamp
    \/ ClickPercentage
    \/ Ticks
    \/ Advance
    \/ \E p \in Positions(duration) : Seek(p)
    \/ Play
    \/ VideoAttach
    \/ VideoDetach

Spec == Init /\ [][Next]_vars

\* the timer fires the callback of a live interval again and again
FairSpec == Spec /\ WF_vars(Ticks)

\* the page with reloads
ReloadNext == Next \/ Reload

ReloadSpec == Init /\ [][ReloadNext]_vars

\* the popup and the page it toggles: togglePanel messages come from the
\* popup only
PopupNext ==
    \/ \E tab \in Tabs : PopupOpen(tab)
    \/ PopupQuery
    \/ MessageDelivered
    \/ SendRejected
    \/ PopupClose
    \/ PopupDismiss
    \/ StartupRead
    \/ ClosePanel

PopupSpec == Init /\ [][PopupNext]_vars

\* ------------------------------------- the panel on a wider range of inputs

\* texts typed into #timestampInput
CodecTexts ==
    {
      <<>>, <<"a", "b", "c">>, <<"1", ":", "2">>,
      <<"1", "2", ":", "3", ":", "4", "5">>, <<"0", ":", "3", "0">>,
      <<"1", "2", ":", "3", "4">>, <<"5", "9", ":", "5", "9">>,
      <<"1", "2", "3", ":", "4", "5">>,
      <<"1", ":", "0", "2", ":", "0", "3">>,
      <<"1", "0", "0", ":", "0", "0", ":", "0", "0">>,
      <<"1", ":", "2", ":", "0", "3">>,
      <<"1", ":", "0", "2", ":", "0", "3", ":", "0", "4">>,
      <<":", "3", "0">>, <<"1", ":">>, <<"1", ":", "6", "0">>,
      <<"1", "2", ":", "7", "5">>, <<"a", ":", "3", "0">>,
      <<"0", "5", ":", "3", "0">>, <<"1", ":", "3", "a">>,
      <<"0", ":", "0", "0">> }

\* texts typed into #scaleValue
CodecScaleTexts ==
    {
      <<>>, <<"-", "1">>, <<"0">>, <<"5", "0">>, <<"1", "0", "0">>,
      <<"1", "0", "1">> }

\* video.duration: 59.6 s, 60 s, 100 s, 59:59.6, 1:01:01 and 1:59:59.6
CodecDurations == {596, 600, 1000, 35996, 36610, 71996}

\* a page with a video on which the stored flag opens the panel
CodecInit ==
    /\ pauseIntervalId = Null
    /\ intervals = [i \in {} |-> 0]
    /\ nextIntervalId = 1
    /\ videoInDom = TRUE
    /\ currentTime = 0
    /\ duration \in CodecDurations
    /\ paused = FALSE
    /\ pauseCalls = [i \in 1..MaxIntervals |-> 0]
    /\ panelPresent = FALSE
    /\ panelCount = 0
    /\ timestampInput = <<>>
    /\ scaleSlider = <<>>
    /\ scaleValue = <<>>
    /\ isPanelVisible = "true"
    /\ startupGet = isPanelVisible
    /\ console = ""
    /\ popup = PopupClosed

CodecNext ==
    \/ StartupRead
    \/ \E text \in CodecTexts : TimestampInput(text)
    \/ \E text \in CodecScaleTexts : ScaleValueInput(text)
    \/ ClickTimestamp
    \/ ClickPercentage

CodecSpec == CodecInit /\ [][CodecNext]_vars

\* ---------------------------------------------------------------- claims

Ids == 1..MaxIntervals

NoIntervals == [i \in {} |-> 0]

Idle == pauseIntervalId = Null

\* video.pause() is called by the callback of interval id in this step
PauseIssuedBy(id) == pauseCalls'[id] # pauseCalls[id]

PauseIssued == \E id \in Ids : PauseIssuedBy(id)

\* C1: at most one interval is live, a live interval is the one recorded in
\* pauseIntervalId, and every interval created earlier has been cleared.
C1_OneLiveInterval ==
    /\ Cardinality(DOMAIN intervals) <= 1
    /\ \A id \in DOMAIN intervals : id = pauseIntervalId
    /\ \A id \in 1..(nextIntervalId - 1) :
           id # pauseIntervalId => id \notin DOMAIN intervals

\* a second interval has been created and is the only live one
C1_Witness ==
    /\ nextIntervalId = 3
    /\ pauseIntervalId = 2
    /\ DOMAIN intervals = {2}

\* C2: after a later startPauseTimer call with a video, no interval but the
\* one created last is live, and every pause is issued by that interval on
\* the comparison of the position with its own target.
C2_NoStaleTick ==
    /\ [](\A id \in DOMAIN intervals : id = nextIntervalId - 1)
    /\ [][\A id \in Ids :
             PauseIssuedBy(id) =>
                 /\ id = nextIntervalId - 1
                 /\ id \in DOMAIN intervals
                 /\ currentTime >= intervals[id]]_vars

\* the first timer was replaced before it paused, and the second one paused
C2_Witness ==
    /\ nextIntervalId = 3
    /\ pauseCalls[1] = 0
    /\ pauseCalls[2] = 1

\* C3: video.pause() is issued only by a tick of the armed interval at which
\* the position is at or above that interval's target; never below the
\* target and never while Idle.
C3_PauseOnlyAtOrAfterTarget ==
    [][(PauseIssued \/ (~paused /\ paused')) =>
          /\ ~Idle
          /\ pauseIntervalId \in DOMAIN intervals
          /\ currentTime >= intervals[pauseIntervalId]
          /\ PauseIssuedBy(pauseIntervalId)
          /\ \A id \in Ids \ {pauseIntervalId} : ~PauseIssuedBy(id)]_vars

\* a pause has been issued
C3_Witness ==
    /\ console = "Video paused."
    /\ paused
    /\ \E id \in Ids : pauseCalls[id] = 1

\* C4: an interval issues at most one pause; the tick that issues it leaves
\* the scheduler Idle with that interval cleared.
C4_AtMostOnePause ==
    /\ [](\A id \in Ids : pauseCalls[id] <= 1)
    /\ [][\A id \in Ids :
             PauseIssuedBy(id) =>
                 /\ pauseCalls[id] = 0
                 /\ pauseCalls'[id] = 1
                 /\ pauseIntervalId' = Null
                 /\ intervals' = NoIntervals]_vars

\* the position is at the end of the video, the first interval has paused
\* once and the scheduler is Idle
C4_Witness ==
    /\ Idle
    /\ currentTime = duration
    /\ console = "Video paused."
    /\ pauseCalls[1] = 1

\* the armed interval is id and the position is at or above its target
ArmedAndReached(id) ==
    /\ pauseIntervalId = id
    /\ id \in DOMAIN intervals
    /\ currentTime >= intervals[id]

\* C5: with ticks fired fairly, an armed interval whose target the position
\* has reached leads to that interval's pause and Idle, unless the position
\* falls below the target again or the interval is replaced or cancelled
\* before it has paused.
C5_EventuallyPauses ==
    \A id \in Ids :
        ArmedAndReached(id) ~>
            \/ pauseCalls[id] = 1 /\ Idle
            \/ pauseCalls[id] = 0 /\ pauseIntervalId # id
            \/ pauseIntervalId = id /\ ~ArmedAndReached(id)

\* an interval is armed and the position is at its target
C5_Witness ==
    /\ ArmedAndReached(1)
    /\ currentTime = intervals[1]
    /\ pauseCalls[1] = 0

\* a step that asks for a schedule: a click whose input passes validation
ScheduleRequest ==
    \/ ClickTimestamp /\ isValidHMSFormat(timestampInput)
    \/ /\ ClickPercentage
       /\ ~isNaN(parseFloat(scaleValue))
       /\ ~OutOfRange(parseFloat(scaleValue))

\* C6: an armed scheduler leaves Armed or changes its target only by a tick
\* that finds the position at or above the target or by a schedule request;
\* closing the panel, togglePanel, slider and number input changes and a
\* tick below the target leave the slot and its target unchanged.
C6_ArmedUntilReachedOrRescheduled ==
    /\ [][(~Idle /\ (pauseIntervalId' # pauseIntervalId \/ intervals' # intervals)) =>
             \/ PauseIssuedBy(pauseIntervalId) /\ currentTime >= intervals[pauseIntervalId]
             \/ ScheduleRequest]_vars
    /\ [][(\/ ClosePanel
           \/ TogglePanel
           \/ \E text \in SliderTexts : SliderInput(text)
           \/ \E text \in ScaleTexts : ScaleValueInput(text)
           \/ \E id \in DOMAIN intervals : Tick(id) /\ currentTime < intervals[id])
          => UNCHANGED schedVars]_vars

\* the panel was removed while an interval is armed, and the interval stays
C6_Witness ==
    /\ ~Idle
    /\ ~panelPresent
    /\ pauseIntervalId \in DOMAIN intervals
    /\ isPanelVisible = "false"

\* C7: a timestamp click that reaches startPauseTimer without a video leaves
\* the scheduler Idle, creates no interval and issues no pause; and an Idle
\* scheduler becomes Armed only by a schedule request.
C7_NoVideoEndsIdle ==
    /\ [][(ClickTimestamp /\ isValidHMSFormat(timestampInput) /\ ~videoInDom) =>
             /\ pauseIntervalId' = Null
             /\ intervals' = NoIntervals
             /\ nextIntervalId' = nextIntervalId
             /\ ~PauseIssued
             /\ paused' = paused]_vars
    /\ [][(Idle /\ pauseIntervalId' # Null) => ScheduleRequest /\ videoInDom]_vars

\* the only interval created was cancelled by a schedule without a video,
\* and the scheduler is still Idle with the video back in the page
C7_Witness ==
    /\ Idle
    /\ nextIntervalId = 2
    /\ pauseCalls[1] = 0
    /\ intervals = NoIntervals
    /\ console = "No video element found to set a timer."
    /\ videoInDom

\* C8 (as claimed): in every state, a click whose input passes validation
\* does what startPauseTimer does from that state, so that an armed interval
\* does not survive it.
C8_EveryValidClickSchedules ==
    panelPresent =>
        /\ isValidHMSFormat(timestampInput) =>
               pauseIntervalId \notin DOMAIN timestampClick(sched, timestampInput).intervals
        /\ (~isNaN(parseFloat(scaleValue)) /\ ~OutOfRange(parseFloat(scaleValue))) =>
               pauseIntervalId \notin DOMAIN percentageClick(sched, scaleValue).intervals

\* C9: a timestamp click with a text that fails the format check, and a
\* percentage click with a value that is NaN, below 0 or above 100, leave
\* the slot, the intervals and their targets as they were and issue no pause.
C9_RejectedClickChangesNothing ==
    [][(\/ ClickTimestamp /\ ~isValidHMSFormat(timestampInput)
        \/ /\ ClickPercentage
           /\ LET percentage == parseFloat(scaleValue)
              IN  isNaN(percentage) \/ percentage.n < 0 \/ percentage.n > 100)
       => /\ UNCHANGED schedVars
          /\ ~PauseIssued
          /\ paused' = paused]_vars

\* a timestamp click was rejected while an interval is armed
C9_Witness ==
    /\ console = "Invalid timestamp format."
    /\ ~Idle
    /\ pauseIntervalId \in DOMAIN intervals

\* C10 (as claimed): once the startup read is delivered, the stored flag is
\* true exactly when the panel is in the page.
C10_FlagMatchesPanel ==
    startupGet = "delivered" => (isPanelVisible = "true" <=> panelPresent)

\* the numeric fields of a formatted text, last field last
Fields(text) == LET split == Split(text) IN [i \in 1..Len(split) |-> Number(split[i])]

\* the seconds field and the minutes field are in 0..59
FieldsInRange(text) ==
    LET f == Fields(text)
    IN  /\ Len(f) \in 2..3
        /\ f[Len(f)] \in 0..59
        /\ f[Len(f) - 1] \in 0..59

\* C11 (as claimed): no formatted duration has a seconds or minutes field
\* above 59, neither the text percentageOfTimestamp returns for the whole
\* duration nor the text the panel shows by default: rounded seconds of 60
\* carry into the minutes.
C11_SecondsCarry ==
    (panelPresent /\ videoInDom) =>
        /\ FieldsInRange(percentageOfTimestamp(duration, 100))
        /\ FieldsInRange(DefaultTimestamp(duration))
        /\ (timestampInput = DefaultTimestamp(duration) => FieldsInRange(timestampInput))

\* one or more digits, a colon, two digits, a colon, two digits
ShapeHMS(s) ==
    \E h \in 1..Len(s) :
        /\ Len(s) = h + 6
        /\ \A i \in 1..h : IsDigit(s[i])
        /\ s[h + 1] = ":" /\ IsDigit(s[h + 2]) /\ IsDigit(s[h + 3])
        /\ s[h + 4] = ":" /\ IsDigit(s[h + 5]) /\ IsDigit(s[h + 6])

\* one or two digits, a colon, two digits
ShapeMS(s) ==
    \E m \in 1..2 :
        /\ Len(s) = m + 3
        /\ \A i \in 1..m : IsDigit(s[i])
        /\ s[m + 1] = ":" /\ IsDigit(s[m + 2]) /\ IsDigit(s[m + 3])

RejectedExamples ==
    { <<"1", ":", "2">>, <<"1", "2", ":", "3", ":", "4", "5">>,
      <<"a", "b", "c">>, <<>> }

\* C12: the validator accepts a text exactly when it has the shape H:MM:SS
\* or M:SS / MM:SS; "1:2", "12:3:45", "abc" and "" are rejected, and the
\* timestamp click logs the format error exactly for the texts without shape.
C12_ValidatorAcceptsExactlyShapes ==
    /\ [](/\ isValidHMSFormat(timestampInput)
              <=> (ShapeHMS(timestampInput) \/ ShapeMS(timestampInput))
          /\ \A text \in RejectedExamples : ~isValidHMSFormat(text))
    /\ [][ClickTimestamp =>
             (console' = "Invalid timestamp format."
                  <=> ~(ShapeHMS(timestampInput) \/ ShapeMS(timestampInput)))]_vars

\* the click on "12:3:45" was rejected
C12_Witness ==
    /\ timestampInput = <<"1", "2", ":", "3", ":", "4", "5">>
    /\ console = "Invalid timestamp format."

\* hours*3600 + minutes*60 + seconds of the colon-separated fields of an
\* accepted text, hours being 0 for the two-part form
TotalSeconds(text) ==
    LET f == Fields(text)
    IN  IF Len(f) = 3 THEN f[1] * 3600 + f[2] * 60 + f[3]
        ELSE f[1] * 60 + f[2]

\* C13: a timestamp click with an accepted text and a video in the page arms
\* a new interval whose target is hours*3600 + minutes*60 + seconds (kept in
\* tenths); "1:02:03" gives 3723 s, "12:34" 754 s and "0:30" 30 s.
C13_TimestampTarget ==
    [][(ClickTimestamp /\ videoInDom
            /\ (ShapeHMS(timestampInput) \/ ShapeMS(timestampInput))) =>
          /\ pauseIntervalId' = nextIntervalId
          /\ DOMAIN intervals' = {nextIntervalId}
          /\ intervals'[nextIntervalId] = TotalSeconds(timestampInput) * 10
          /\ timestampInput = <<"1", ":", "0", "2", ":", "0", "3">>
                 => intervals'[nextIntervalId] = 37230
          /\ timestampInput = <<"1", "2", ":", "3", "4">>
                 => intervals'[nextIntervalId] = 7540
          /\ timestampInput = <<"0", ":", "3", "0">>
                 => intervals'[nextIntervalId] = 300]_vars

\* the click on "1:02:03" armed the first interval with 3723 s
C13_Witness ==
    /\ timestampInput = <<"1", ":", "0", "2", ":", "0", "3">>
    /\ pauseIntervalId = 1
    /\ 1 \in DOMAIN intervals
    /\ intervals[1] = 37230
    /\ console = "Setting timer to pause."

\* a two-part text in canonical form: minutes 0..59 without a leading
\* zero, seconds 00..59
Canonical(text) ==
    /\ ShapeMS(text)
    /\ Len(text) = 5 => text[1] # "0"
    /\ Fields(text)[1] \in 0..59
    /\ Fields(text)[2] \in 0..59

\* C14: for a canonical two-part text x, the target the timestamp click
\* computes from x is formatted back to x, by percentageOfTimestamp and by
\* the formatting of the default timestamp.
C14_RoundTrip ==
    /\ [](Canonical(timestampInput) =>
             LET parts == timestampToArray(timestampInput)
                 totalSeconds == (parts[1] * 3600 + parts[2] * 60 + parts[3]) * 10
             IN  /\ percentageOfTimestamp(totalSeconds, 100) = timestampInput
                 /\ DefaultTimestamp(totalSeconds) = timestampInput)
    /\ [][(ClickTimestamp /\ videoInDom /\ Canonical(timestampInput)) =>
             /\ nextIntervalId \in DOMAIN intervals'
             /\ percentageOfTimestamp(intervals'[nextIntervalId], 100) = timestampInput]_vars

\* the click on the canonical text "12:34" armed an interval with its total
C14_Witness ==
    /\ timestampInput = <<"1", "2", ":", "3", "4">>
    /\ Canonical(timestampInput)
    /\ pauseIntervalId \in DOMAIN intervals
    /\ intervals[pauseIntervalId] = 7540
    /\ percentageOfTimestamp(intervals[pauseIntervalId], 100) = timestampInput

\* the text of #scaleValue is a number from 0 to 100
ValidPercentage(text) ==
    /\ text # <<>>
    /\ AllDigits(text)
    /\ Number(text) \in 0..100

\* C15: a percentage below 0 or above 100 is rejected and schedules
\* nothing; a set-by-percentage click on a percentage p in 0..100 with a
\* video present arms the scheduler with exactly duration * p / 100 (half of
\* 100 s is 50 s, p = 0 gives 0, p = 100 gives the duration).
C15_PercentageTarget ==
    /\ [](/\ percentageOfTimestamp(duration, 0 - 1) = <<"number not valid">>
          /\ percentageOfTimestamp(duration, 101) = <<"number not valid">>
          /\ percentageOfTimestamp(1000, 50) = <<"0", ":", "5", "0">>)
    /\ [][(ClickPercentage /\ videoInDom /\ ValidPercentage(scaleValue)) =>
             /\ pauseIntervalId' = nextIntervalId
             /\ DOMAIN intervals' = {nextIntervalId}
             /\ intervals'[nextIntervalId] * 100 = duration * Number(scaleValue)
             /\ Number(scaleValue) = 0 => intervals'[nextIntervalId] = 0
             /\ Number(scaleValue) = 100 => intervals'[nextIntervalId] = duration
             /\ (duration = 1000 /\ Number(scaleValue) = 50)
                    => intervals'[nextIntervalId] = 500]_vars
    /\ [][(ClickPercentage /\ ~ValidPercentage(scaleValue)) =>
             /\ UNCHANGED <<pauseIntervalId, intervals, nextIntervalId>>
             /\ console' = "Invalid percentage value."]_vars

\* the click on 50 percent of a video of 100 s armed an interval at 50 s
C15_Witness ==
    /\ duration = 1000
    /\ scaleValue = <<"5", "0">>
    /\ pauseIntervalId \in DOMAIN intervals
    /\ intervals[pauseIntervalId] = 500
    /\ console = "Setting timer to pause."

\* a decimal numeral of n without padding
Unpadded(field, n) ==
    /\ field # <<>>
    /\ AllDigits(field)
    /\ Number(field) = n
    /\ Len(field) = 1 \/ field[1] # "0"

\* two decimal digits
TwoDigits(field) == Len(field) = 2 /\ AllDigits(field)

\* out is H:MM:SS when the total (in tenths) has hours, M:SS otherwise
FormatShape(out, total) ==
    LET hours == total \div 36000
        minutes == (total % 36000) \div 600
        parts == Split(out)
    IN  IF hours > 0
        THEN /\ Len(parts) = 3
             /\ Unpadded(parts[1], hours)
             /\ TwoDigits(parts[2]) /\ Number(parts[2]) = minutes
             /\ TwoDigits(parts[3])
        ELSE /\ Len(parts) = 2
             /\ Unpadded(parts[1], minutes)
             /\ TwoDigits(parts[2])

\* C16: every formatted text is H:MM:SS when hours > 0 and M:SS otherwise,
\* hours and minutes being the floors of the total, hours (or minutes in the
\* short form) unpadded and the later fields two digits wide; 3661 s is
\* formatted "1:01:01". This holds for what percentageOfTimestamp returns
\* and for the default text a newly injected panel shows.
C16_FormatShape ==
    /\ [](/\ \A n \in {0, 50, 100} :
                FormatShape(percentageOfTimestamp(duration, n), (duration * n) \div 100)
          /\ FormatShape(DefaultTimestamp(duration), duration)
          /\ percentageOfTimestamp(36610, 100) = <<"1", ":", "0", "1", ":", "0", "1">>)
    /\ [][(~panelPresent /\ panelPresent' /\ videoInDom) =>
             FormatShape(timestampInput', duration)]_vars

\* a panel injected on a video of 3661 s shows "1:01:01"
C16_Witness ==
    /\ duration = 36610
    /\ panelPresent
    /\ videoInDom
    /\ timestampInput = <<"1", ":", "0", "1", ":", "0", "1">>

\* C17: stopPauseTimer called while Armed clears the interval and leaves
\* the scheduler Idle; called a second time, or called while Idle, it
\* changes nothing and leaves the scheduler Idle. A click that reaches
\* stopPauseTimer while Idle and finds no video leaves the scheduler Idle.
C17_StopIdempotent ==
    /\ [](LET once == stopPauseTimer(sched)
              twice == stopPauseTimer(once)
          IN  /\ once.pauseIntervalId = Null
              /\ pauseIntervalId \notin DOMAIN once.intervals
              /\ once.intervals = NoIntervals
              /\ once.nextIntervalId = nextIntervalId
              /\ twice = once
              /\ Idle => once = sched)
    /\ [][(ClickTimestamp /\ Idle /\ ~videoInDom) =>
             /\ Idle'
             /\ UNCHANGED <<intervals, nextIntervalId>>]_vars

\* the callback of interval 1 paused and stopped the timer, and a later
\* click without a video called stopPauseTimer again while Idle
C17_Witness ==
    /\ Idle
    /\ intervals = NoIntervals
    /\ nextIntervalId = 2
    /\ pauseCalls[1] = 1
    /\ console = "No video element found to set a timer."

\* C18 (as claimed): the startup read injects the panel when the flag it
\* read is true, changes no panel otherwise and never writes the flag; and
\* when a page whose startup read was delivered is loaded again, the flag
\* the new page reads is true exactly when the panel was in the old page,
\* so an open panel comes back and a closed one does not.
C18_VisibilitySurvivesReload ==
    /\ [][StartupRead =>
             /\ startupGet = "true" => (panelPresent' /\ panelCount' = 1)
             /\ startupGet # "true" => UNCHANGED panelVars
             /\ UNCHANGED isPanelVisible]_vars
    /\ [][(Reload /\ startupGet = "delivered") =>
             (startupGet' = "true" <=> panelPresent)]_vars

\* C19: the page never holds two panels. injectPanel changes nothing when
\* a panel is present, so whatever the order of the startup injection, the
\* togglePanel commands and the close clicks, the number of panel elements
\* is 0 or 1 (and with it the number of listener sets injectPanel attached).
C19_AtMostOnePanel ==
    /\ [](/\ panelCount \in 0..1
          /\ panelPresent <=> panelCount = 1
          /\ panelPresent => injectPanel(panel) = panel)
    /\ [][(StartupRead /\ panelPresent) => UNCHANGED panelVars]_vars
    /\ [][(TogglePanel /\ panelPresent) => (~panelPresent' /\ panelCount' = 0)]_vars
    /\ [][(TogglePanel /\ ~panelPresent) => (panelPresent' /\ panelCount' = 1)]_vars

\* the startup read found the panel a togglePanel command had injected, and
\* did not inject a second one
C19_Witness ==
    /\ console = "Panel already exists, not injecting again."
    /\ startupGet = "delivered"
    /\ panelPresent
    /\ panelCount = 1

\* the active tab exists and its URL starts with https://www.youtube.com/
OnYouTube(tab) ==
    /\ tab.exists
    /\ Len(tab.url) >= 3
    /\ tab.url[1] = "https://"
    /\ tab.url[2] = "www.youtube.com"
    /\ tab.url[3] = "/"

\* the popup is past the tab query of this opening
Queried == popup.pc \in {"awaiting", "resolved", "returned", "threw"}

\* C20 (as claimed): an opening of the popup sends exactly one togglePanel
\* message when the active tab exists and is a YouTube page, and sends none
\* and returns the error status otherwise; in both cases the handler goes
\* on to window.close(), it never ends with the popup left open.
C20_PopupSendsOnceAndCloses ==
    /\ Queried =>
          IF OnYouTube(popup.tab)
          THEN popup.sent = 1 /\ popup.status = "none"
          ELSE popup.sent = 0 /\ popup.status = "error"
    /\ popup.pc = "loaded" => popup.sent = 0
    /\ popup.pc # "threw"

====
